---- MODULE Spec2Model ----
(***************************************************************************)
(* Model of the FMI weather integration:                                   *)
(*   components/fmi/config_flow.py  (FMIConfigFlow)                        *)
(*   components/fmi/weather.py      (async_update_data, FMIWeather)        *)
(*   components/fmi/__init__.py     (setup / unload lifecycle)             *)
(* Each part of the integration has its own specification over the shared  *)
(* variables: SpecFlow, SpecWeather, SpecAttrs, SpecCondition and          *)
(* SpecLifecycle.                                                          *)
(***************************************************************************)
EXTENDS Integers, Sequences, FiniteSets, TLC

VARIABLES
    entries,      \* hass.config_entries.async_entries(DOMAIN), in creation order
    flow          \* the configuration flows: position, locals, _errors, the
                  \* provider call's outcome and the step's last result

VARIABLES
    coordinator,  \* DataUpdateCoordinator: data, last_update_success
    refresh,      \* the refresh in flight: position in async_update_data, locals
    setup_pc,     \* position of weather.async_setup_entry
    entity_added, \* async_add_entities([FMIWeather(...)]) has been called
    attempts,     \* number of refresh attempts started so far
    last_attempt, \* most recent completed attempt: call outcomes, signal raised
    last_success, \* what the provider returned in the last attempt whose two
                  \* calls both succeeded
    read          \* the last property read from the entity and its outcome

VARIABLES
    lifecycle     \* per config entry: results of the __init__.py hooks

flowVars == <<entries, flow>>
weatherVars == <<coordinator, refresh, setup_pc, entity_added, attempts,
                 last_attempt, last_success, read>>
vars == <<entries, flow, coordinator, refresh, setup_pc, entity_added, attempts,
          last_attempt, last_success, read, lifecycle>>

None == "None"

\* Optional[T]: None is the empty sequence, a value x is <<x>>.
NoneOpt == <<>>
Some(x) == <<x>>
IsNone(o) == o = <<>>
Get(o) == o[1]

(***************************************************************************)
(* Bounds                                                                  *)
(***************************************************************************)
MaxNameLen == 2
MaxAttempts == 3
MaxSymbol == 99
MaxForecastLen == 2

(***************************************************************************)
(* Configuration flow: config_flow.py                                      *)
(***************************************************************************)
CONF_NAME == "name"

DEFAULT_NAME == <<"F", "M", "I">>

\* hass.config.latitude / hass.config.longitude, the form's first defaults
hass_config == [latitude |-> 61, longitude |-> 24]

\* Names are sequences of characters.
Chars == {"H", "h", " "}
Names == UNION {[1..n -> Chars] : n \in 1..MaxNameLen}
\* The coordinates a user submits (the form's schema has made them floats).
Latitudes == {60}
Longitudes == {25}
UserInputs == [name : Names, latitude : Latitudes, longitude : Longitudes]

\* Two flows in progress at once: enough for their steps to interleave.
Flows == {"flow1", "flow2"}

\* Outcome of fmi.async_weather_by_coordinates / async_forecast_by_coordinates
ProviderOutcomes == {"ok", "ClientError", "ServerError"}

\* homeassistant.util.slugify: lower-case, every run of non-alphanumeric
\* characters becomes one "_", leading and trailing "_" are dropped.
slug_char(c) ==
    CASE c = "H" -> "h"
      [] c = "h" -> "h"
      [] OTHER -> "_"

RECURSIVE slug_squeeze(_)
slug_squeeze(s) ==
    IF Len(s) = 0 THEN <<>>
    ELSE IF Head(s) = "_" /\ (Len(s) = 1 \/ s[2] = "_")
         THEN slug_squeeze(Tail(s))
         ELSE <<Head(s)>> \o slug_squeeze(Tail(s))

slugify(text) ==
    LET mapped == [i \in 1..Len(text) |-> slug_char(text[i])]
        sq == slug_squeeze(mapped)
    IN IF Len(sq) > 0 /\ Head(sq) = "_" THEN Tail(sq) ELSE sq

\* Faulty variant of is_name_available: titles compared without normalisation.
is_name_available_raw(name, es) ==
    \A i \in 1..Len(es) : es[i].title # name

\* FMIConfigFlow.is_name_available
is_name_available(name, es) ==
    \A i \in 1..Len(es) : slugify(es[i].title) # slugify(name)

\* FMIConfigFlow.async_is_valid_location, given the provider call's outcome
async_is_valid_location(outcome) ==
    IF outcome \in {"ClientError", "ServerError"} THEN FALSE ELSE TRUE

\* Faulty variant of set_errors: the location error is not recorded.
set_errors_name_only(errors, is_name_valid, is_location_valid) ==
    IF ~is_name_valid THEN errors \cup {<<CONF_NAME, "name_exists">>} ELSE errors

\* async_step_user, the two assignments into self._errors.  _errors is a dict,
\* modelled as its set of <<key, value>> pairs; each key has one possible value.
set_errors(errors, is_name_valid, is_location_valid) ==
    LET e1 == IF ~is_name_valid
              THEN errors \cup {<<CONF_NAME, "name_exists">>} ELSE errors
    IN IF ~is_location_valid
       THEN e1 \cup {<<"base", "invalid_location">>} ELSE e1

\* self.async_show_form(step_id="user", data_schema=..., errors=self._errors)
async_show_form(name, latitude, longitude, errors) ==
    [type |-> "form", step_id |-> "user",
     defaults |-> [name |-> name, latitude |-> latitude, longitude |-> longitude],
     errors |-> errors]

\* self.async_create_entry(title=user_input.get(CONF_NAME), data=user_input)
async_create_entry(user_input) ==
    [type |-> "create_entry", title |-> user_input.name, data |-> user_input]

NoResult == [type |-> None]

\* The state of the parts a specification does not exercise.
IdleFlow ==
    /\ entries = <<>>
    /\ flow = [f \in Flows |-> [pc |-> "unused"]]

IdleWeather ==
    /\ coordinator = [data |-> NoneOpt, last_update_success |-> TRUE]
    /\ refresh = [pc |-> "unused"]
    /\ setup_pc = "unused"
    /\ entity_added = FALSE
    /\ attempts = 0
    /\ last_attempt = NoneOpt
    /\ last_success = NoneOpt
    /\ read = NoneOpt

IdleLifecycle == lifecycle = <<>>

InitFlow ==
    /\ IdleWeather /\ IdleLifecycle
    /\ entries = <<>>
    /\ flow = [f \in Flows |->
                 [pc |-> "new", _errors |-> {}, user_input |-> NoneOpt,
                  is_name_valid |-> NoneOpt, call |-> None,
                  is_location_valid |-> NoneOpt, result |-> NoResult]]

\* async_step_user(user_input=None): the flow is initialised and the form shown
StepUserShow(f) ==
    /\ flow[f].pc = "new"
    /\ flow' = [flow EXCEPT ![f].pc = "form",
                            ![f].result =
                                async_show_form(DEFAULT_NAME, hass_config.latitude,
                                                hass_config.longitude, flow[f]._errors)]
    /\ UNCHANGED <<entries, weatherVars, lifecycle>>

\* async_step_user(user_input) up to the await of async_is_valid_location:
\* the name check has run, the provider call is in flight.
StepUserSubmit(f, user_input) ==
    /\ flow[f].pc = "form"
    /\ flow' = [flow EXCEPT ![f].pc = "await",
                            ![f].user_input = Some(user_input),
                            ![f].is_name_valid =
                                Some(is_name_available(user_input.name, entries)),
                            ![f].call = None,
                            ![f].is_location_valid = NoneOpt,
                            ![f].result = NoResult]
    /\ UNCHANGED <<entries, weatherVars, lifecycle>>

\* async_step_user(user_input) from the await on: the provider call returned
\* or raised; the entry is created or the form shown again.
StepUserResume(f, outcome) ==
    /\ flow[f].pc = "await"
    /\ LET user_input == Get(flow[f].user_input)
           is_name_valid == Get(flow[f].is_name_valid)
           is_location_valid == async_is_valid_location(outcome)
       IN IF is_name_valid /\ is_location_valid
          THEN /\ entries' = Append(entries,
                                    [title |-> async_create_entry(user_input).title,
                                     data |-> async_create_entry(user_input).data])
               /\ flow' = [flow EXCEPT ![f].pc = "done",
                                       ![f].call = outcome,
                                       ![f].is_location_valid = Some(is_location_valid),
                                       ![f].result = async_create_entry(user_input)]
          ELSE LET errs == set_errors(flow[f]._errors, is_name_valid,
                                      is_location_valid)
               IN /\ flow' = [flow EXCEPT
                                ![f].pc = "form",
                                ![f].call = outcome,
                                ![f].is_location_valid = Some(is_location_valid),
                                ![f]._errors = errs,
                                ![f].result =
                                    async_show_form(user_input.name,
                                                    user_input.latitude,
                                                    user_input.longitude, errs)]
                  /\ UNCHANGED entries
    /\ UNCHANGED <<weatherVars, lifecycle>>

NextFlow ==
    \/ \E f \in Flows : StepUserShow(f)
    \/ \E f \in Flows, user_input \in UserInputs : StepUserSubmit(f, user_input)
    \/ \E f \in Flows, outcome \in ProviderOutcomes : StepUserResume(f, outcome)

SpecFlow == InitFlow /\ [][NextFlow]_vars

(***************************************************************************)
(* Properties of the configuration flow                                    *)
(***************************************************************************)
NameTaken(name, es) ==
    \E i \in 1..Len(es) : slugify(es[i].title) = slugify(name)

\* The form is shown again after a submission (not the flow's first form).
Submitted(f) == flow[f].pc = "form" /\ flow[f].call # None

\* C1: no two persisted configuration entries have titles that are equal
\* after slugify normalisation, whatever the interleaving of the flows.
C1_UniqueNormalizedTitles ==
    \A i, j \in 1..Len(entries) :
        i # j => slugify(entries[i].title) # slugify(entries[j].title)

\* C2: a submission creates an entry if and only if the name is available
\* when it is submitted (no entry has the same slugified title) and the
\* provider call succeeds; the flow then ends, the entry's title is the
\* submitted name and its data the three submitted fields.
C2_CreateIffValid ==
    [][\A f \in Flows :
        /\ (flow[f].pc = "form" /\ flow'[f].pc = "await")
              => Get(flow'[f].is_name_valid)
                   = ~NameTaken(Get(flow'[f].user_input).name, entries)
        /\ (flow[f].pc = "await" /\ flow'[f].pc # "await")
              => LET input == Get(flow[f].user_input)
                     created == flow'[f].result.type = "create_entry"
                 IN /\ created <=> (Get(flow[f].is_name_valid) /\ flow'[f].call = "ok")
                    /\ created =>
                          /\ flow'[f].pc = "done"
                          /\ flow'[f].result.title = input.name
                          /\ flow'[f].result.data =
                                [name |-> input.name,
                                 latitude |-> input.latitude,
                                 longitude |-> input.longitude]
                          /\ entries' = Append(entries,
                                               [title |-> input.name,
                                                data |-> input])
                    /\ ~created => entries' = entries
      ]_vars

\* C2 witness: one flow created its entry, the other was refused the same
\* normalised name although its provider call succeeded.
C2_Witness ==
    \E f, g \in Flows :
        /\ flow[f].pc = "done" /\ flow[f].result.type = "create_entry"
        /\ Len(entries) = 1 /\ entries[1].data = Get(flow[f].user_input)
        /\ Submitted(g) /\ flow[g].is_name_valid = Some(FALSE)
        /\ flow[g].call = "ok"
        /\ Get(flow[g].user_input).name # Get(flow[f].user_input).name

\* C3: a submission that fails validation creates no entry and leaves the
\* entries unchanged; the 'user' form is shown again with 'name_exists' on
\* the name field when the name is taken, 'invalid_location' on 'base' when
\* the provider raised ClientError or ServerError, and the submitted values
\* as the defaults.
C3_FailureShowsForm ==
    [][\A f \in Flows :
        (/\ flow[f].pc = "await" /\ flow'[f].pc # "await"
         /\ (~Get(flow[f].is_name_valid)
               \/ flow'[f].call \in {"ClientError", "ServerError"}))
        => /\ entries' = entries
           /\ flow'[f].pc = "form"
           /\ flow'[f].result.type = "form"
           /\ flow'[f].result.step_id = "user"
           /\ (~Get(flow[f].is_name_valid)
                 => <<CONF_NAME, "name_exists">> \in flow'[f].result.errors)
           /\ (flow'[f].call \in {"ClientError", "ServerError"}
                 => <<"base", "invalid_location">> \in flow'[f].result.errors)
           /\ flow'[f].result.defaults = Get(flow[f].user_input)
      ]_vars

\* C3 witness: a submission failed both checks (by a ServerError) while an
\* entry exists, and the form is shown again.
C3_Witness ==
    \E f \in Flows :
        /\ Submitted(f) /\ Len(entries) > 0
        /\ flow[f].is_name_valid = Some(FALSE) /\ flow[f].call = "ServerError"
        /\ flow[f].result.type = "form"

\* C10: the errors on the re-rendered form are exactly those of the most
\* recent submission of the flow.
C10_ErrorsOfLastSubmission ==
    \A f \in Flows :
        Submitted(f) =>
            /\ (<<CONF_NAME, "name_exists">> \in flow[f].result.errors
                   <=> ~Get(flow[f].is_name_valid))
            /\ (<<"base", "invalid_location">> \in flow[f].result.errors
                   <=> flow[f].call \in {"ClientError", "ServerError"})

(***************************************************************************)
(* Weather entity: weather.py                                              *)
(***************************************************************************)
\* fmi_weather_client.models.Value: an optional number and a unit.  Numbers
\* are held in tenths (20 is 2.0).
Value(v) == [value |-> Some(v)]
ValueOfNone == [value |-> NoneOpt]

MainFields ==
    {"temperature", "pressure", "humidity", "wind_speed", "wind_direction"}

\* The optional fields device_state_attributes looks at, in the code's order.
AttributeFields ==
    <<"wind_u_component", "wind_v_component", "wind_max", "wind_gust", "symbol",
      "cloud_cover", "cloud_low_cover", "cloud_mid_cover", "cloud_high_cover",
      "radiation_short_wave_acc", "radiation_short_wave_surface_net_acc",
      "radiation_long_wave_acc", "radiation_long_wave_surface_net_acc",
      "radiation_short_wave_diff_surface_acc", "geopotential_height",
      "land_sea_mask">>

DiagnosticFields == {AttributeFields[i] : i \in 1..Len(AttributeFields)}
WeatherFields == MainFields \cup DiagnosticFields

\* class FMIResponse
FMIResponse(weather, forecast) == [weather |-> weather, forecast |-> forecast]

Returned(x) == [raised |-> FALSE, value |-> x]
Raised(e) == [raised |-> TRUE, value |-> e]

\* Faulty variant of _symbol_to_condition: 23 and 33 fall into the rainy branch.
_symbol_to_condition_rainy(symbol) ==
    IF ~IsNone(symbol)
    THEN LET s == Get(symbol)
         IN CASE s \in {1} -> Some("sunny")
              [] s \in {91, 92} -> Some("fog")
              [] s \in {21, 22, 23, 31, 32, 33} -> Some("rainy")
              [] s \in {71, 72, 73, 81, 82, 83} -> Some("snowy-rainy")
              [] s \in {41, 42, 43, 51, 52, 53} -> Some("snowy")
              [] s \in {61, 62, 63, 64} -> Some("lightning")
              [] s \in {2} -> Some("partlycloudy")
              [] s \in {3} -> Some("cloudy")
              [] OTHER -> NoneOpt
    ELSE NoneOpt

\* _symbol_to_condition: the first branch whose list holds the symbol
_symbol_to_condition(symbol) ==
    IF ~IsNone(symbol)
    THEN LET s == Get(symbol)
         IN IF s \in {1} THEN Some("sunny")
            ELSE IF s \in {91, 92} THEN Some("fog")
            ELSE IF s \in {21, 22, 31, 32} THEN Some("rainy")
            ELSE IF s \in {23, 33} THEN Some("pouring")
            ELSE IF s \in {71, 72, 73, 81, 82, 83} THEN Some("snowy-rainy")
            ELSE IF s \in {41, 42, 43, 51, 52, 53} THEN Some("snowy")
            ELSE IF s \in {61, 62, 63, 64} THEN Some("lightning")
            ELSE IF s \in {2} THEN Some("partlycloudy")
            ELSE IF s \in {3} THEN Some("cloudy")
            ELSE NoneOpt
    ELSE NoneOpt

\* self._coordinator.data.weather.data can be evaluated: data is an
\* FMIResponse and its weather is a Weather (an attribute of None raises).
HasWeatherData(data) == ~IsNone(data) /\ ~IsNone(Get(data).weather)
WeatherDataOf(data) == Get(Get(data).weather).data

\* FMIWeather.temperature, .pressure, .humidity, .wind_bearing: the field's
\* value when the field is there
passthrough(data, field) ==
    IF ~HasWeatherData(data) THEN Raised("AttributeError")
    ELSE IF ~IsNone(WeatherDataOf(data)[field])
         THEN Returned(Get(WeatherDataOf(data)[field]).value)
         ELSE Returned(NoneOpt)

temperature(data) == passthrough(data, "temperature")
pressure(data) == passthrough(data, "pressure")
humidity(data) == passthrough(data, "humidity")
wind_bearing(data) == passthrough(data, "wind_direction")

\* round(x * 3.6, 1) on tenths
round_kmh(v) == (v * 36 + 5) \div 10

\* FMIWeather.wind_speed
wind_speed(data) ==
    IF ~HasWeatherData(data) THEN Raised("AttributeError")
    ELSE IF ~IsNone(WeatherDataOf(data)["wind_speed"])
         THEN LET v == Get(WeatherDataOf(data)["wind_speed"]).value
              IN IF IsNone(v) THEN Raised("TypeError")
                 ELSE Returned(Some(round_kmh(Get(v))))
         ELSE Returned(NoneOpt)

\* FMIWeather.condition
condition(data) ==
    IF ~HasWeatherData(data) THEN Raised("AttributeError")
    ELSE IF ~IsNone(WeatherDataOf(data)["symbol"])
         THEN Returned(_symbol_to_condition(
                           Get(WeatherDataOf(data)["symbol"]).value))
         ELSE Returned(NoneOpt)

\* datetime.isoformat("T")
isoformat(t) == <<t.date, "T", t.time>>

\* FMIWeather.forecast
forecast(data) ==
    IF IsNone(data) THEN Raised("AttributeError")
    ELSE LET fs == Get(data).forecast.forecasts
         IN IF ~IsNone(fs)
            THEN Returned(Some(
                   [i \in 1..Len(Get(fs)) |->
                       [datetime |-> isoformat(Get(fs)[i].time),
                        temperature |-> Get(fs)[i].temperature.value,
                        condition |-> _symbol_to_condition(
                                           Get(fs)[i].symbol.value)]]))
            ELSE Returned(NoneOpt)

\* FMIWeather.available
available(coord) == coord.last_update_success

\* attributes[key] = value
setitem(attributes, key, value) ==
    [k \in DOMAIN attributes \cup {key} |->
        IF k = key THEN value ELSE attributes[k]]

\* The field whose value the i-th `if` of device_state_attributes stores
\* under the key AttributeFields[i], and the field its condition tests: the
\* two are the same field except in the 11th `if`, which tests
\* radiation_short_wave_acc and stores radiation_short_wave_surface_net_acc.
TestedField(i) ==
    IF AttributeFields[i] = "radiation_short_wave_surface_net_acc"
    THEN "radiation_short_wave_acc"
    ELSE AttributeFields[i]

\* FMIWeather.device_state_attributes from its i-th `if` on, with the
\* attributes collected so far
RECURSIVE collect_attributes(_, _, _)
collect_attributes(weather_data, attributes, i) ==
    IF i > Len(AttributeFields) THEN Returned(Some(attributes))
    ELSE IF ~IsNone(weather_data[TestedField(i)])
         THEN IF IsNone(weather_data[AttributeFields[i]])
              THEN Raised("AttributeError")
              ELSE collect_attributes(
                       weather_data,
                       setitem(attributes, AttributeFields[i],
                               Get(weather_data[AttributeFields[i]]).value),
                       i + 1)
         ELSE collect_attributes(weather_data, attributes, i + 1)

\* FMIWeather.device_state_attributes
device_state_attributes(data) ==
    IF IsNone(data) THEN Raised("AttributeError")
    ELSE IF IsNone(Get(data).weather) THEN Returned(NoneOpt)
    ELSE collect_attributes(WeatherDataOf(data), <<>>, 1)

Properties ==
    {"temperature", "pressure", "humidity", "wind_speed", "wind_bearing",
     "condition", "forecast", "device_state_attributes"}

\* Reading property p of the entity
ReadProperty(p, data) ==
    CASE p = "temperature" -> temperature(data)
      [] p = "pressure" -> pressure(data)
      [] p = "humidity" -> humidity(data)
      [] p = "wind_speed" -> wind_speed(data)
      [] p = "wind_bearing" -> wind_bearing(data)
      [] p = "condition" -> condition(data)
      [] p = "forecast" -> forecast(data)
      [] p = "device_state_attributes" -> device_state_attributes(data)

(***************************************************************************)
(* Provider responses used by the refresh model                            *)
(***************************************************************************)
\* Field values of the sample snapshot, in tenths: the main fields are those
\* of tests/components/fmi/test_init.py, each diagnostic field has its own.
SampleValue(field) ==
    CASE field = "temperature" -> 12
      [] field = "pressure" -> 10107
      [] field = "humidity" -> 910
      [] field = "wind_speed" -> 20
      [] field = "wind_direction" -> 1010
      [] field = "symbol" -> 1
      [] OTHER -> 100 + CHOOSE i \in 1..Len(AttributeFields) :
                            AttributeFields[i] = field

\* Weather.data with exactly the fields of `present` there
Snapshot(present) ==
    [f \in WeatherFields |->
        IF f \in present THEN Some(Value(SampleValue(f))) ELSE NoneOpt]

ForecastPoint(hour, temp, symbol) ==
    [time |-> [date |-> "2020-04-01", time |-> hour],
     temperature |-> Value(temp), symbol |-> [value |-> symbol]]

WeatherSamples == {Snapshot(WeatherFields), Snapshot({})}
ForecastSamples ==
    {Some(<<>>),
     Some(<<ForecastPoint("12:00:00", 15, Some(2)),
            ForecastPoint("13:00:00", 17, Some(23))>>)}

\* Faulty variant of async_update_data: `except ServerError` is missing, the raw
\* error leaves the update method.
async_update_data_no_server(weather_call, forecast_call) ==
    IF weather_call.outcome = "ok" /\ forecast_call.outcome = "ok"
    THEN Returned(FMIResponse(weather_call.value, forecast_call.value))
    ELSE IF "ClientError" \in {weather_call.outcome, forecast_call.outcome}
         THEN Raised("UpdateFailed")
         ELSE Raised("ServerError")

\* Faulty variant of async_update_data: a failed forecast call is swallowed and the
\* response built from the weather alone.
async_update_data_partial(weather_call, forecast_call) ==
    IF weather_call.outcome = "ok"
    THEN Returned(FMIResponse(weather_call.value, forecast_call.value))
    ELSE Raised("UpdateFailed")

\* async_update_data, given what its two awaited calls did: the forecast call
\* is made only after the weather call returned ("not_called" otherwise).
async_update_data(weather_call, forecast_call) ==
    IF weather_call.outcome = "ok" /\ forecast_call.outcome = "ok"
    THEN Returned(FMIResponse(weather_call.value, forecast_call.value))
    ELSE IF "ClientError" \in {weather_call.outcome, forecast_call.outcome}
         THEN Raised("UpdateFailed")
         ELSE Raised("UpdateFailed")

\* DataUpdateCoordinator.async_refresh once update_method returned or raised:
\* data is assigned only on return; any exception clears last_update_success.
async_refresh(coord, result) ==
    IF result.raised
    THEN [coord EXCEPT !.last_update_success = FALSE]
    ELSE [data |-> Some(result.value), last_update_success |-> TRUE]

IdleRefresh == [pc |-> "idle", trigger |-> None, weather |-> NoneOpt, n |-> 0]
NotCalled == [outcome |-> "not_called", value |-> NoneOpt]

InitWeather ==
    /\ IdleFlow /\ IdleLifecycle
    /\ coordinator = [data |-> NoneOpt, last_update_success |-> TRUE]
    /\ refresh = IdleRefresh
    /\ setup_pc = "start"
    /\ entity_added = FALSE
    /\ attempts = 0
    /\ last_attempt = NoneOpt
    /\ last_success = NoneOpt
    /\ read = NoneOpt

\* The coordinator starts a refresh: update_method is called and suspends at
\* its first await.  One refresh is in flight at a time.
BeginRefresh(trigger) ==
    /\ refresh.pc = "idle"
    /\ attempts < MaxAttempts
    /\ attempts' = attempts + 1
    /\ refresh' = [pc |-> "weather", trigger |-> trigger, weather |-> NoneOpt,
                   n |-> attempts + 1]

\* weather.async_setup_entry up to `await coordinator.async_refresh()`
SetupEntryRefresh ==
    /\ setup_pc = "start"
    /\ BeginRefresh("initial")
    /\ setup_pc' = "refreshing"
    /\ UNCHANGED <<coordinator, entity_added, last_attempt, last_success, read,
                   flowVars, lifecycle>>

\* weather.async_setup_entry after the initial refresh:
\* async_add_entities([FMIWeather(config, coordinator, lat, lon)])
SetupEntryAddEntities ==
    /\ setup_pc = "refreshing"
    /\ refresh.pc = "idle"
    /\ setup_pc' = "done"
    /\ entity_added' = TRUE
    /\ UNCHANGED <<coordinator, refresh, attempts, last_attempt, last_success,
                   read, flowVars, lifecycle>>

\* update_interval=timedelta(minutes=20) elapsed
PeriodicRefresh ==
    /\ setup_pc = "done"
    /\ BeginRefresh("periodic")
    /\ UNCHANGED <<coordinator, setup_pc, entity_added, last_attempt,
                   last_success, read, flowVars, lifecycle>>

\* FMIWeather.async_update: await self._coordinator.async_request_refresh()
async_update ==
    /\ entity_added
    /\ BeginRefresh("request")
    /\ UNCHANGED <<coordinator, setup_pc, entity_added, last_attempt,
                   last_success, read, flowVars, lifecycle>>

\* update_method returned or raised: the coordinator takes the result.
FinishRefresh(weather_call, forecast_call) ==
    LET result == async_update_data(weather_call, forecast_call)
    IN /\ coordinator' = async_refresh(coordinator, result)
       /\ last_attempt' =
            Some([n |-> refresh.n,
                  weather |-> weather_call.outcome,
                  forecast |-> forecast_call.outcome,
                  signal |-> IF result.raised THEN result.value ELSE "ok"])
       /\ last_success' =
            IF weather_call.outcome = "ok" /\ forecast_call.outcome = "ok"
            THEN Some([weather |-> weather_call.value,
                       forecast |-> forecast_call.value])
            ELSE last_success
       /\ refresh' = IdleRefresh

\* `await fmi.async_weather_by_coordinates(lat, lon)` returns or raises
WeatherCallReturns(outcome, sample) ==
    /\ refresh.pc = "weather"
    /\ IF outcome = "ok"
       THEN /\ refresh' = [refresh EXCEPT
                             !.pc = "forecast",
                             !.weather = Some([attempt |-> refresh.n,
                                               data |-> sample])]
            /\ UNCHANGED <<coordinator, last_attempt, last_success>>
       ELSE FinishRefresh([outcome |-> outcome, value |-> NoneOpt], NotCalled)
    /\ UNCHANGED <<setup_pc, entity_added, attempts, read, flowVars, lifecycle>>

\* `await fmi.async_forecast_by_coordinates(lat, lon, 8)` returns or raises
ForecastCallReturns(outcome, sample) ==
    /\ refresh.pc = "forecast"
    /\ FinishRefresh([outcome |-> "ok", value |-> refresh.weather],
                     [outcome |-> outcome,
                      value |-> IF outcome = "ok"
                                THEN [attempt |-> refresh.n, forecasts |-> sample]
                                ELSE [attempt |-> 0, forecasts |-> NoneOpt]])
    /\ UNCHANGED <<setup_pc, entity_added, attempts, read, flowVars, lifecycle>>

\* The host reads a property of the registered entity.
ReadEntity(p) ==
    /\ entity_added
    /\ read' = Some([property |-> p,
                     result |-> ReadProperty(p, coordinator.data)])
    /\ UNCHANGED <<coordinator, refresh, setup_pc, entity_added, attempts,
                   last_attempt, last_success, flowVars, lifecycle>>

NextWeather ==
    \/ SetupEntryRefresh
    \/ SetupEntryAddEntities
    \/ PeriodicRefresh
    \/ async_update
    \/ \E outcome \in ProviderOutcomes, sample \in WeatherSamples :
           WeatherCallReturns(outcome, sample)
    \/ \E outcome \in ProviderOutcomes, sample \in ForecastSamples :
           ForecastCallReturns(outcome, sample)
    \/ \E p \in Properties : ReadEntity(p)

SpecWeather == InitWeather /\ [][NextWeather]_vars

(***************************************************************************)
(* Properties of the refresh cycle and of the entity                       *)
(***************************************************************************)
ProviderErrors == {"ClientError", "ServerError"}

AttemptFailed(a) == a.weather \in ProviderErrors \/ a.forecast \in ProviderErrors

\* C4: the entity is unavailable whenever the most recent completed refresh
\* attempt failed (its weather or forecast call raised ClientError or
\* ServerError) and available when both of its calls succeeded; either error
\* kind reaches the coordinator as UpdateFailed.
C4_AvailabilityFollowsLastAttempt ==
    ~IsNone(last_attempt) =>
        LET a == Get(last_attempt)
        IN /\ AttemptFailed(a) =>
                /\ available(coordinator) = FALSE
                /\ a.signal = "UpdateFailed"
           /\ (a.weather = "ok" /\ a.forecast = "ok") =>
                available(coordinator) = TRUE

\* C4 witness: after a successful attempt, an on-demand attempt failed in
\* the forecast call with a ServerError.
C4_Witness ==
    /\ entity_added
    /\ ~IsNone(last_attempt) /\ ~IsNone(last_success)
    /\ Get(last_attempt).weather = "ok"
    /\ Get(last_attempt).forecast = "ServerError"
    /\ available(coordinator) = FALSE

\* C5: the stored snapshot is the result of the last successful refresh: a
\* failed attempt leaves it as it was, a successful one replaces weather and
\* forecast together, so both always come from the same attempt.
C5_SnapshotOfLastSuccess ==
    /\ coordinator.data = last_success
    /\ ~IsNone(coordinator.data) =>
          Get(Get(coordinator.data).weather).attempt
            = Get(coordinator.data).forecast.attempt

\* C5 witness: a snapshot was stored, and a later attempt whose weather call
\* succeeded failed in the forecast call.
C5_Witness ==
    /\ ~IsNone(coordinator.data) /\ ~IsNone(last_attempt)
    /\ Get(last_attempt).weather = "ok"
    /\ Get(last_attempt).forecast \in ProviderErrors
    /\ Get(Get(coordinator.data).weather).attempt < Get(last_attempt).n

\* C6: reading a property of the registered entity never raises, also after
\* failed refresh attempts.
C6_ReadNeverRaises ==
    ~IsNone(read) => ~Get(read).result.raised

(***************************************************************************)
(* The entity over every snapshot: extra attributes                        *)
(***************************************************************************)
\* The coordinator after a successful refresh that fetched `weather_data`
\* and the forecast points `points`.
Fetched(weather_data, points) ==
    [data |-> Some(FMIResponse(Some([attempt |-> 1, data |-> weather_data]),
                               [attempt |-> 1, forecasts |-> Some(points)])),
     last_update_success |-> TRUE]

\* The entity is registered and no refresh is in flight.
Registered ==
    /\ IdleFlow /\ IdleLifecycle
    /\ refresh = IdleRefresh
    /\ setup_pc = "done"
    /\ entity_added = TRUE
    /\ attempts = 1
    /\ last_attempt = NoneOpt
    /\ last_success = NoneOpt
    /\ read = NoneOpt

\* Every combination of present and absent diagnostic fields.
InitAttrs ==
    /\ Registered
    /\ \E present \in SUBSET DiagnosticFields :
           coordinator = Fetched(Snapshot(present), <<>>)

NextAttrs == ReadEntity("device_state_attributes")

SpecAttrs == InitAttrs /\ [][NextAttrs]_vars

\* C7: for every snapshot, device_state_attributes does not fail and holds a
\* key for a diagnostic field if and only if the field is present, with the
\* field's own value.
C7_AttributesMatchSnapshot ==
    (~IsNone(read) /\ Get(read).property = "device_state_attributes") =>
        /\ ~Get(read).result.raised
        /\ LET attributes == Get(Get(read).result.value)
               weather_data == WeatherDataOf(coordinator.data)
           IN /\ DOMAIN attributes
                   = {f \in DiagnosticFields : ~IsNone(weather_data[f])}
              /\ \A f \in DOMAIN attributes :
                     attributes[f] = Get(weather_data[f]).value

(***************************************************************************)
(* The entity over every symbol code: condition and forecast               *)
(***************************************************************************)
Hours == <<"12:00:00", "13:00:00", "14:00:00", "15:00:00",
           "16:00:00", "17:00:00", "18:00:00", "19:00:00">>

SymbolCodes == 0..MaxSymbol

\* The snapshot's symbol: the field absent, its value absent, or a code.
SymbolInputs ==
    {NoneOpt, Some(ValueOfNone)} \cup {Some(Value(n)) : n \in SymbolCodes}

\* Forecasts of up to MaxForecastLen points with consecutive symbol codes
\* from any first code, and one whose point has no symbol value.
ForecastInputs ==
    {<<>>, <<ForecastPoint(Hours[1], 15, NoneOpt)>>}
    \cup {[i \in 1..k |->
              ForecastPoint(Hours[i], 15 + i,
                            Some((first + i - 1) % (MaxSymbol + 1)))] :
            first \in SymbolCodes, k \in 1..MaxForecastLen}

InitCondition ==
    /\ Registered
    /\ \E symbol \in SymbolInputs, points \in ForecastInputs :
           coordinator =
               Fetched([Snapshot({}) EXCEPT !["symbol"] = symbol], points)

NextCondition ==
    \/ ReadEntity("condition")
    \/ ReadEntity("forecast")

SpecCondition == InitCondition /\ [][NextCondition]_vars

Conditions ==
    {"sunny", "partlycloudy", "cloudy", "rainy", "pouring", "snowy",
     "lightning", "snowy-rainy", "fog"}

\* The symbol codes the Condition Mapping gives each condition.
MappedCodes(c) ==
    CASE c = "sunny" -> {1}
      [] c = "partlycloudy" -> {2}
      [] c = "cloudy" -> {3}
      [] c = "rainy" -> {21, 22, 31, 32}
      [] c = "pouring" -> {23, 33}
      [] c = "snowy" -> (41..43) \cup (51..53)
      [] c = "lightning" -> 61..64
      [] c = "snowy-rainy" -> (71..73) \cup (81..83)
      [] c = "fog" -> {91, 92}

\* The conditions mapped to an optional symbol code: none for an absent one.
MappedConditions(symbol) ==
    IF IsNone(symbol) THEN {}
    ELSE {c \in Conditions : Get(symbol) \in MappedCodes(c)}

OptAsSet(o) == IF IsNone(o) THEN {} ELSE {Get(o)}

\* C8: the entity's condition and each forecast point's condition is the
\* Condition Mapping's value for the symbol code; unmapped codes and an
\* absent symbol give no condition; no code has two conditions.
C8_ConditionIsMapping ==
    ~IsNone(read) =>
        LET r == Get(read).result
            symbol == WeatherDataOf(coordinator.data)["symbol"]
            points == Get(Get(coordinator.data).forecast.forecasts)
        IN /\ ~r.raised
           /\ Get(read).property = "condition" =>
                OptAsSet(r.value) =
                    IF IsNone(symbol) THEN {}
                    ELSE MappedConditions(Get(symbol).value)
           /\ Get(read).property = "forecast" =>
                /\ Len(Get(r.value)) = Len(points)
                /\ \A i \in 1..Len(points) :
                       OptAsSet(Get(r.value)[i].condition)
                         = MappedConditions(points[i].symbol.value)

\* C8 witness: the forecast was read for points with codes 33 and 34, giving
\* pouring and no condition, while the snapshot's symbol is 91.
C8_Witness ==
    /\ ~IsNone(read) /\ Get(read).property = "forecast"
    /\ WeatherDataOf(coordinator.data)["symbol"] = Some(Value(91))
    /\ Len(Get(Get(read).result.value)) = 2
    /\ Get(Get(read).result.value)[1].condition = Some("pouring")
    /\ Get(Get(read).result.value)[2].condition = NoneOpt

(***************************************************************************)
(* Setup and unload: __init__.py                                           *)
(***************************************************************************)
PLATFORMS == <<"weather">>
PlatformIndex == 1..Len(PLATFORMS)

\* The configured entries the host sets up and unloads.
ConfigEntries == {"entry1", "entry2"}

\* Outcome of the forwarded setup of one platform, run as its own task.
SetupOutcomes == {"ok", "failed", "raised"}

NewEntry ==
    [pc |-> "new", setup_entry |-> NoneOpt,
     tasks |-> [i \in PlatformIndex |-> "none"],
     unloads |-> [i \in PlatformIndex |-> NoneOpt],
     unload_entry |-> NoneOpt]

InitLifecycle ==
    /\ IdleFlow /\ IdleWeather
    /\ lifecycle = [setup |-> NoneOpt, entry |-> [e \in ConfigEntries |-> NewEntry]]

\* Faulty variant of unload_ok: the results of the unloads are ignored.
unload_ok_ignored(results) == TRUE

\* async_unload_entry: all(await asyncio.gather(...))
unload_ok(results) == \A i \in 1..Len(results) : results[i] = TRUE

\* async_setup
async_setup ==
    /\ IsNone(lifecycle.setup)
    /\ lifecycle' = [lifecycle EXCEPT !.setup = Some(TRUE)]
    /\ UNCHANGED <<flowVars, weatherVars>>

\* async_setup_entry: one task per platform is created, none is awaited
async_setup_entry(e) ==
    /\ ~IsNone(lifecycle.setup)
    /\ lifecycle.entry[e].pc \in {"new", "unloaded"}
    /\ lifecycle' = [lifecycle EXCEPT
                       !.entry[e] = [NewEntry EXCEPT
                                       !.pc = "set_up",
                                       !.tasks = [i \in PlatformIndex |->
                                                     "scheduled"],
                                       !.setup_entry = Some(TRUE)]]
    /\ UNCHANGED <<flowVars, weatherVars>>

\* The task created for platform i runs async_forward_entry_setup to its end.
ForwardEntrySetupDone(e, i, outcome) ==
    /\ lifecycle.entry[e].tasks[i] = "scheduled"
    /\ lifecycle' = [lifecycle EXCEPT !.entry[e].tasks[i] = outcome]
    /\ UNCHANGED <<flowVars, weatherVars>>

\* async_unload_entry up to the await of asyncio.gather
UnloadEntryBegin(e) ==
    /\ lifecycle.entry[e].pc = "set_up"
    /\ lifecycle' = [lifecycle EXCEPT !.entry[e].pc = "unloading"]
    /\ UNCHANGED <<flowVars, weatherVars>>

\* async_forward_entry_unload of platform i reports its result.
ForwardEntryUnloadDone(e, i, ok) ==
    /\ lifecycle.entry[e].pc = "unloading"
    /\ IsNone(lifecycle.entry[e].unloads[i])
    /\ lifecycle' = [lifecycle EXCEPT !.entry[e].unloads[i] = Some(ok)]
    /\ UNCHANGED <<flowVars, weatherVars>>

\* async_unload_entry after the gather: return unload_ok
UnloadEntryReturn(e) ==
    /\ lifecycle.entry[e].pc = "unloading"
    /\ \A i \in PlatformIndex : ~IsNone(lifecycle.entry[e].unloads[i])
    /\ lifecycle' =
         [lifecycle EXCEPT
            !.entry[e].pc = "unloaded",
            !.entry[e].unload_entry =
                Some(unload_ok([i \in PlatformIndex |->
                                   Get(lifecycle.entry[e].unloads[i])]))]
    /\ UNCHANGED <<flowVars, weatherVars>>

NextLifecycle ==
    \/ async_setup
    \/ \E e \in ConfigEntries : async_setup_entry(e)
    \/ \E e \in ConfigEntries, i \in PlatformIndex, outcome \in SetupOutcomes :
           ForwardEntrySetupDone(e, i, outcome)
    \/ \E e \in ConfigEntries : UnloadEntryBegin(e)
    \/ \E e \in ConfigEntries, i \in PlatformIndex, ok \in BOOLEAN :
           ForwardEntryUnloadDone(e, i, ok)
    \/ \E e \in ConfigEntries : UnloadEntryReturn(e)

SpecLifecycle == InitLifecycle /\ [][NextLifecycle]_vars

\* C9: async_setup and async_setup_entry report success, the latter whatever
\* becomes of the forwarded setups it scheduled; async_unload_entry reports
\* success if and only if every platform's unload reported success.
C9_SetupTrueUnloadAll ==
    /\ lifecycle.setup \in {NoneOpt, Some(TRUE)}
    /\ \A e \in ConfigEntries :
        LET r == lifecycle.entry[e]
        IN /\ r.pc # "new" => r.setup_entry = Some(TRUE)
           /\ r.pc = "unloaded" =>
                r.unload_entry =
                    Some(\A i \in PlatformIndex : r.unloads[i] = Some(TRUE))

\* C9 witness: one entry reported a failed unload after its forwarded setup
\* had raised; another was set up with its forwarded setup still pending.
C9_Witness ==
    \E e, d \in ConfigEntries :
        /\ lifecycle.entry[e].pc = "unloaded"
        /\ lifecycle.entry[e].unload_entry = Some(FALSE)
        /\ lifecycle.entry[e].tasks[1] = "raised"
        /\ lifecycle.entry[d].pc = "set_up"
        /\ lifecycle.entry[d].setup_entry = Some(TRUE)
        /\ lifecycle.entry[d].tasks[1] = "scheduled"

====
